---- MODULE Spec2Model ----
(***************************************************************************)
(* Network_Simulation: classical hosts and routers, quantum adapters that  *)
(* gate data behind a QKD handshake, and the World's sequential scheduler. *)
(*                                                                         *)
(* Topology of the model (constructed in ConnOrder):                       *)
(*     Carol - Alice - R1 - XR <=> YR - R2 - Bob                           *)
(* XR and YR are the local classical routers of the adapters X and Y.      *)
(* The link YR - R2 is added by an operation, so that the state in which   *)
(* Bob is unreachable from YR is a state of the model.                     *)
(*                                                                         *)
(* Specifications: Spec (the scenario under construction), E2ESpec (the    *)
(* end-to-end scenario), HostSpec (hosts constructed, connected, sending), *)
(* PairSpec (adapters constructed and paired), CipherSpec (the cipher),    *)
(* WorldSpec (the World's scheduler), QkdSpec (Spec with the quantum       *)
(* hosts' classical exchange), KeySpec (E2ESpec with a callback for every  *)
(* perform_qkd), DrainSpec (adapters paired after construction), RaceSpec  *)
(* (the key callback against the tick thread, statement by statement),     *)
(* BufSpec (a send against a forward() that is draining, statement by      *)
(* statement).                                                             *)
(*                                                                         *)
(* Every handler is one action, except in RaceSpec and BufSpec, where the  *)
(* handlers of two threads interleave.  Handlers are operators on a        *)
(* heap record S (the part of the state a handler can change); S.exc is    *)
(* the exception being raised ("" when none) and stops the handler.        *)
(***************************************************************************)
EXTENDS Integers, Sequences, FiniteSets, TLC

VARIABLES
    links,      \* the Connections, each an ordered pair <<node_1, node_2>>
    gateway,    \* ClassicalHost.default_gateway
    bound,      \* ClassicalHost.quantum_adapter
    paired,     \* QuantumAdapter.paired_adapter
    buf,        \* Node.buffers: buf[receiver][sender] is a FIFO of packets
    key,        \* QuantumAdapter.shared_key
    pend,       \* QuantumAdapter.input_data_buffer
    qkdCalls,   \* calls of perform_qkd on each adapter's quantum host
    qrecv,      \* payloads handed to each quantum host's receive_classical_data
    recv,       \* packets each host handed to recive_packet, in order
    sentLog,    \* the data_sent notifications of send_data, in order
    err,        \* <<node, exception>> the last call raised, NoErr when it returned
    nextId,     \* tag of the next packet a host creates
    sessionKey, \* the key the QKD session derives (None until a callback ran)
    cipher,     \* CipherSpec: the payload, the key and the packets of a round trip
    world,      \* WorldSpec: the World object and its coordinator threads
    made,       \* the nodes and adapters whose constructor has returned
    chan,       \* the quantum channels, each the set of the two adapters whose
                \* quantum hosts it joins
    events,     \* the events the event sink has been given
    thr,        \* the threads inside a handler: where each is and what it holds
    cbCalls     \* calls of on_qkd_established the quantum host made on each adapter

netVars == <<links, gateway, bound, paired, buf, key, pend, qkdCalls, qrecv, recv,
             sentLog, err, nextId, sessionKey, made, chan, events, thr,
             cbCalls>>

\* The same without the threads.
objVars == <<links, gateway, bound, paired, buf, key, pend, qkdCalls, qrecv, recv,
              sentLog, err, nextId, sessionKey, made, chan, events, cbCalls>>

vars == <<links, gateway, bound, paired, buf, key, pend, qkdCalls, qrecv, recv,
          sentLog, err, nextId, sessionKey, cipher, world, made, chan, events,
          thr, cbCalls>>

None == "None"
NoConn == <<>>      \* get_connection found no Connection
NoKey == <<>>       \* shared_key is None; a key k is held as <<k>>
NoErr == <<>>       \* the last call returned normally

\* No thread is inside a handler: the tick thread (pc) holds no packet (pkt)
\* and iterates no buffers (rest), the callback thread (cb) has not started;
\* taken keeps the ids a forward() has dequeued, since the value of nextId when
\* the forward() in progress began.
NoThread == [pc |-> "idle", pkt |-> <<>>, rest |-> <<>>, cb |-> "idle",
             taken |-> <<>>, since |-> 0]

\* ------------------------------------------------------------------ bounds
MaxSends == 3
MaxSetupSends == 1
MaxPayloadLen == 2
MaxKeyLen == 2
MaxNetworks == 3
MaxLoops == 2
MaxSleeps == 3
MaxHostSends == 2
MaxQkdSends == 1
MaxConnections == 2

\* The byte values payloads are drawn from.
ByteSamples == {0, 104, 255}

\* ---------------------------------------------------------------- topology
Hosts == {"Carol", "Alice", "Bob"}
Routers == {"R1", "R2", "XR", "YR"}
Nodes == Hosts \cup Routers
Adapters == {"X", "Y"}

\* The order in which buffers are iterated (dict order of Node.buffers).
NodeOrder == <<"Carol", "Alice", "R1", "XR", "YR", "R2", "Bob">>

LocalRouter(a) == IF a = "X" THEN "XR" ELSE "YR"

\* The Connections made while the scenario is constructed, in order; Y is
\* constructed with paired_adapter = X, which makes the connection YR - XR.
ConnOrder == << <<"Carol", "Alice">>, <<"Alice", "R1">>, <<"R1", "XR">>,
                <<"YR", "XR">>, <<"R2", "Bob">> >>

\* The Connection added later by AddConnection.
LateConn == <<"YR", "R2">>

Hello == <<104, 105>>
Payloads == {Hello, <<0, 255>>}
Keys == {<<1>>, <<0, 1>>}

\* The sends the model draws, <<sender, send_to>>: in the end-to-end scenario,
\* and while the scenario is being set up.
SendPairs == {<<"Alice", "Bob">>, <<"Carol", "Alice">>}
SetupSendPairs == {<<"Alice", "Bob">>, <<"Carol", "Alice">>, <<"Alice", "Carol">>,
                   <<"Bob", "Alice">>}

SeqToSet(s) == {s[i] : i \in 1..Len(s)}

\* ---------------------------------------------------------------- the heap
Heap == [buf |-> buf, key |-> key, pend |-> pend, qkdCalls |-> qkdCalls,
         qrecv |-> qrecv, recv |-> recv, events |-> events, exc |-> "",
         hasTime |-> TRUE]

Raise(S, e) == [S EXCEPT !.exc = e]

\* ------------------------------------------------------ connections, paths
GetConnection(a, b) ==
    IF <<a, b>> \in links THEN <<a, b>>
    ELSE IF <<b, a>> \in links THEN <<b, a>>
    ELSE NoConn

\* Connection.transmit_packet: the packet joins the tail of the inbound buffer
\* that the endpoint opposite the sender keeps for the sender.
TransmitPacket(S, conn, sender, packet) ==
    LET receiver == IF conn[1] = sender THEN conn[2] ELSE conn[1]
    IN  [S EXCEPT !.buf[receiver][sender] = Append(@, packet)]

\* Breadth-first search: paths is the set of shortest paths from the source to
\* the nodes of the current frontier.
RECURSIVE Bfs(_, _, _)
Bfs(paths, seen, dst) ==
    LET hit == {p \in paths : p[Len(p)] = dst}
        next == {Append(p, m) : p \in paths, m \in Nodes}
        ext == {q \in next : /\ q[Len(q)] \notin seen
                              /\ GetConnection(q[Len(q) - 1], q[Len(q)]) /= NoConn}
    IN  IF hit /= {} THEN CHOOSE p \in hit : TRUE
        ELSE IF ext = {} THEN <<>>
        ELSE Bfs(ext, seen \cup {q[Len(q)] : q \in ext}, dst)

\* get_path(src, dst): a shortest path, of length <= 1 when there is none.
GetPath(src, dst) == Bfs({<<src>>}, {src}, dst)

\* ------------------------------------------------------------------ packets
\* A new packet: its hop trail starts at its sender.
NewPacket(cls, id, data, from, to, dest) ==
    [cls |-> cls, id |-> id, data |-> data, from |-> from, to |-> to,
     type |-> "DATA", dest |-> dest, next |-> None, hops |-> <<from>>]

AppendHop(packet, hop) == [packet EXCEPT !.hops = Append(@, hop)]

\* ------------------------------------------------------------------ cipher
RECURSIVE Xor(_, _)
Xor(a, b) ==
    IF a = 0 /\ b = 0 THEN 0
    ELSE (((a % 2) + (b % 2)) % 2) + 2 * Xor(a \div 2, b \div 2)

\* The key repeated to the payload's length, XOR-ed byte by byte.
SimpleXorEncrypt(data, k) ==
    [i \in 1..Len(data) |-> Xor(data[i], k[((i - 1) % Len(k)) + 1])]

SimpleXorDecrypt(data, k) ==
    [i \in 1..Len(data) |-> Xor(data[i], k[((i - 1) % Len(k)) + 1])]

\* ------------------------------------------------------------ ClassicalHost
\* add_connection: the gateway a host holds after adding conn.
HostAddConnection(h, gw, conn) ==
    LET g1 == IF gw = None THEN conn[2] ELSE gw
        g2 == IF conn[2] \in Routers THEN conn[2] ELSE g1
    IN  IF conn[1] \in Routers THEN conn[1] ELSE g2

RECURSIVE GatewayAfter(_, _, _)
GatewayAfter(h, gw, conns) ==
    IF conns = <<>> THEN gw
    ELSE LET c == Head(conns)
         IN  GatewayAfter(h, IF h \in {c[1], c[2]} THEN HostAddConnection(h, gw, c)
                             ELSE gw, Tail(conns))

\* The event sink as a call meets it: present, absent (get_instance returns
\* None), or raising in the lookup or in emit_event.
Sinks == {"ok", "absent", "raises"}

\* An emit whose exception is not caught.
EmitEventUncaught(S, sink, ev) ==
    IF sink = "ok" THEN [S EXCEPT !.events = @ \cup {ev}]
    ELSE IF sink = "absent" THEN S
    ELSE Raise(S, "Exception")

\* try: manager = get_instance(); if manager: manager.emit_event(...)
\* except Exception: print(...)
EmitEvent(S, sink, ev) ==
    IF sink = "ok" THEN [S EXCEPT !.events = @ \cup {ev}]
    ELSE S

\* A packet that ignores the host's adapter.
BuildPacketUnbound(h, data, sendTo, id) ==
    NewPacket("ClassicDataPacket", id, data, h, sendTo, None)

\* send_data, lines 65-77: the packet as constructed.
BuildPacket(h, data, sendTo, id) ==
    LET to == IF bound[h] /= None THEN LocalRouter(bound[h]) ELSE sendTo
        dest == IF bound[h] /= None THEN sendTo ELSE None
    IN  NewPacket("ClassicDataPacket", id, data, h, to, dest)

\* send_data, lines 79-86: the next hop; None stands for the raise of
\* DefaultGatewayNotFound.
ResolveNextHop(h, sendTo) ==
    IF GetConnection(h, sendTo) /= NoConn THEN sendTo ELSE gateway[h]

\* A send_data that does not test for a missing gateway.
SendDataNoGatewayCheck(S, h, data, sendTo, id, sink) ==
    LET packet == BuildPacket(h, data, sendTo, id)
        nextHop == ResolveNextHop(h, sendTo)
        conn == GetConnection(h, nextHop)
    IN  IF conn = NoConn THEN Raise(S, "NotConnectedError")
        ELSE LET S1 == EmitEvent(S, sink, <<"transmission", h, id>>)
             IN  IF S1.exc /= "" THEN S1
                 ELSE TransmitPacket(S1, conn, h, [packet EXCEPT !.next = nextHop])

\* send_data: the packet is built, its next hop resolved, the event emitted,
\* and the packet handed to the Connection; id tags the packet so that it can
\* A send_data whose packet the receiving host receives during the call.
SendDataDeliversNow(S, h, data, sendTo, id, sink) ==
    LET packet == BuildPacket(h, data, sendTo, id)
        nextHop == ResolveNextHop(h, sendTo)
        conn == GetConnection(h, nextHop)
    IN  IF nextHop = None THEN Raise(S, "DefaultGatewayNotFound")
        ELSE IF conn = NoConn THEN Raise(S, "NotConnectedError")
        ELSE LET S1 == EmitEvent(S, sink, <<"transmission", h, id>>)
                 sent == [packet EXCEPT !.next = nextHop]
             IN  IF S1.exc /= "" THEN S1
                 ELSE IF nextHop \in DOMAIN S1.recv /\ sent.to = nextHop
                      THEN [S1 EXCEPT !.recv[nextHop] = Append(@, sent)]
                      ELSE TransmitPacket(S1, conn, h, sent)

\* be followed.
SendData(S, h, data, sendTo, id, sink) ==
    LET packet == BuildPacket(h, data, sendTo, id)
        nextHop == ResolveNextHop(h, sendTo)
        conn == GetConnection(h, nextHop)
    IN  IF nextHop = None THEN Raise(S, "DefaultGatewayNotFound")
        ELSE IF conn = NoConn THEN Raise(S, "NotConnectedError")
        ELSE LET S1 == EmitEvent(S, sink, <<"transmission", h, id>>)
             IN  IF S1.exc /= "" THEN S1
                 ELSE TransmitPacket(S1, conn, h, [packet EXCEPT !.next = nextHop])

\* recive_packet: the observer is notified of the packet (recv keeps it), and a
\* packet of type DATA has its payload handed to receive_data.
HostRecivePacket(S, h, packet) ==
    [S EXCEPT !.recv[h] = Append(@, packet)]

\* A forward that raises on a packet for another node.
HostHandleStrict(S, h, packet) ==
    IF packet.to = h THEN [S EXCEPT !.recv[h] = Append(@, packet)]
    ELSE Raise(S, "UnexpectedPacket")

\* A forward whose test of the packet's target is inverted.
HostHandleInverted(S, h, packet) ==
    IF packet.to /= h THEN HostRecivePacket(S, h, packet) ELSE S

\* forward: a packet for the host is received, any other is dropped with a
\* warning.
HostHandle(S, h, packet) ==
    IF packet.to = h THEN HostRecivePacket(S, h, packet) ELSE S

\* ----------------------------------------------------------- QuantumAdapter
\* `if self.shared_key`: a key is held and it is not the empty list.
Truthy(k) == k /= NoKey /\ k[1] /= <<>>

\* perform_qkd on the adapter's quantum host.
PerformQkd(S, a) == [S EXCEPT !.qkdCalls[a] = @ + 1]

InitiateQkd(S, a) ==
    IF paired[a] /= None THEN PerformQkd(S, a)
    ELSE Raise(S, "PairAdapterDoesNotExists")

\* An encrypt_packet that leaves the payload as it is.
EncryptPacketPlain(a, sharedKey, packet) ==
    NewPacket("ClassicDataPacket", packet.id, packet.data,
              packet.from, LocalRouter(paired[a]), packet.dest)

EncryptPacket(a, sharedKey, packet) ==
    NewPacket("ClassicDataPacket", packet.id, SimpleXorEncrypt(packet.data, sharedKey),
              packet.from, LocalRouter(paired[a]), packet.dest)

\* A decrypt_packet that passes the payload on as it came.
DecryptPacketAsIs(a, sharedKey, packet) ==
    NewPacket("ClassicDataPacket", packet.id, packet.data,
              packet.from, IF packet.dest /= None THEN packet.dest ELSE packet.to,
              None)

DecryptPacket(a, sharedKey, packet) ==
    NewPacket("ClassicDataPacket", packet.id, SimpleXorDecrypt(packet.data, sharedKey),
              packet.from, IF packet.dest /= None THEN packet.dest ELSE packet.to,
              None)

\* A forward_packet that takes a next hop although the path names none: the
\* packet leaves on whatever Connection the router has.
ForwardPacketNoLengthCheck(S, a, packet0, to) ==
    LET self == LocalRouter(a)
        packet == AppendHop(packet0, self)
        direct == GetConnection(self, to)
        path == GetPath(self, packet.to)
        nextHop == IF Len(path) > 1 THEN path[2]
                   ELSE CHOOSE m \in Nodes : GetConnection(self, m) /= NoConn
        nextConn == GetConnection(self, nextHop)
    IN  IF direct /= NoConn
        THEN TransmitPacket(S, direct, self, [packet EXCEPT !.next = packet.to])
        ELSE IF nextConn = NoConn THEN Raise(S, "NotConnectedError")
        ELSE TransmitPacket(S, nextConn, self, [packet EXCEPT !.next = nextHop])

ForwardPacket(S, a, packet0, to) ==
    LET self == LocalRouter(a)
        packet == AppendHop(packet0, self)
        direct == GetConnection(self, to)
        path == GetPath(self, packet.to)
        nextHop == path[2]
        nextConn == GetConnection(self, nextHop)
    IN  IF direct /= NoConn
        THEN TransmitPacket(S, direct, self, [packet EXCEPT !.next = packet.to])
        ELSE IF Len(path) <= 1 THEN Raise(S, "NotConnectedError")
        ELSE IF nextConn = NoConn THEN Raise(S, "NotConnectedError")
        ELSE TransmitPacket(S, nextConn, self, [packet EXCEPT !.next = nextHop])

\* The report of process_packet without a key (lines 207-211): the print reads
\* self.network.world.time, which nothing under src/ sets (World.__init__ sets
\* no time, no add_network sets world); S.hasTime says whether the attribute
\* is there, and the read raises AttributeError when it is not.
ReportNoKey(S) == IF S.hasTime THEN S ELSE Raise(S, "AttributeError")

\* A process_packet that encrypts again and sends back to the paired adapter.
ProcessPacketSendsBack(S, a, packet) ==
    IF Truthy(S.key[a])
    THEN ForwardPacket(S, a, EncryptPacket(a, S.key[a][1], packet),
                       LocalRouter(paired[a]))
    ELSE ReportNoKey(S)

ProcessPacket(S, a, packet) ==
    IF Truthy(S.key[a])
    THEN LET dec == DecryptPacket(a, S.key[a][1], packet)
         IN  ForwardPacket(S, a, dec, dec.to)
    ELSE ReportNoKey(S)

\* Line 129: no key is held and the adapter is paired.
NeedsQkd(S, a) == S.key[a] = NoKey /\ paired[a] /= None

\* Line 133: the packet is parked in input_data_buffer.
ParkPacket(S, a, packet) == [S EXCEPT !.pend[a] = Append(@, packet)]

\* Lines 136-153: the packet is encrypted and forwarded, or forwarded.
DispatchKeyed(S, a, packet) ==
    IF paired[a] /= None /\ packet.to = LocalRouter(a)
    THEN IF Truthy(S.key[a])
         THEN ForwardPacket(S, a, EncryptPacket(a, S.key[a][1], packet),
                            LocalRouter(paired[a]))
         ELSE ReportNoKey(S)
    ELSE IF paired[a] = None THEN Raise(S, "AttributeError")
    ELSE ForwardPacket(S, a, packet, LocalRouter(paired[a]))

\* The else branch of receive_packet (lines 128-153).
DispatchData(S, a, packet) ==
    IF NeedsQkd(S, a)
    THEN LET S1 == InitiateQkd(S, a)
         IN  IF S1.exc /= "" THEN S1
             ELSE ParkPacket(S1, a, packet)
    ELSE DispatchKeyed(S, a, packet)

\* The branch of receive_packet a packet takes: "process" (lines 119-123),
\* "qkd" (124-127), "data" (128-153), or "raise" when the test raises.
BranchOf(a, packet) ==
    IF Len(packet.hops) < 2 \/ paired[a] = None THEN "raise"
    ELSE IF /\ packet.hops[Len(packet.hops) - 1] = LocalRouter(paired[a])
            /\ packet.cls = "ClassicDataPacket"
    THEN "process"
    ELSE IF packet.cls = "QKDTransmissionPacket" THEN "qkd"
    ELSE "data"

ReceivePacket(S, a, packet) ==
    IF Len(packet.hops) < 2 THEN Raise(S, "IndexError")
    ELSE IF paired[a] = None THEN Raise(S, "AttributeError")
    ELSE IF /\ packet.hops[Len(packet.hops) - 1] = LocalRouter(paired[a])
            /\ packet.cls = "ClassicDataPacket"
    THEN ProcessPacket(S, a, packet)
    ELSE IF packet.cls = "QKDTransmissionPacket"
    THEN [S EXCEPT !.qrecv[a] = Append(@, packet.data)]
    ELSE DispatchData(S, a, packet)

\* A drain that takes the packet parked last first.
RECURSIVE DrainPendingLifo(_, _)
DrainPendingLifo(S, a) ==
    IF S.exc /= "" \/ S.pend[a] = <<>> THEN S
    ELSE LET packet == S.pend[a][Len(S.pend[a])]
             S1 == [S EXCEPT !.pend[a] = SubSeq(@, 1, Len(@) - 1)]
         IN  DrainPendingLifo(ReceivePacket(S1, a, packet), a)

RECURSIVE DrainPending(_, _)
DrainPending(S, a) ==
    IF S.exc /= "" \/ S.pend[a] = <<>> THEN S
    ELSE LET packet == Head(S.pend[a])
             S1 == [S EXCEPT !.pend[a] = Tail(@)]
         IN  DrainPending(ReceivePacket(S1, a, packet), a)

\* A callback that stores the key and leaves the parked packets parked.
OnQkdEstablishedNoDrain(S, a, k) == [S EXCEPT !.key[a] = <<k>>]

OnQkdEstablished(S, a, k) == DrainPending([S EXCEPT !.key[a] = <<k>>], a)

\* send_classical_data: the quantum host's classical side channel, a
\* QKDTransmissionPacket to the paired adapter's local router.
SendClassicalData(S, a, data, id) ==
    IF paired[a] = None THEN Raise(S, "AttributeError")
    ELSE LET self == LocalRouter(a)
             to == LocalRouter(paired[a])
             conn == GetConnection(self, to)
         IN  IF conn = NoConn THEN Raise(S, "NotConnectedError")
             ELSE TransmitPacket(S, conn, self,
                     NewPacket("QKDTransmissionPacket", id, data, self, to, None))

\* ---------------------------------------------------------- ClassicalRouter
\* route_packet of a plain router: the direct Connection, else the next hop
\* of the shortest path.
RoutePacket(S, r, packet) ==
    LET direct == GetConnection(r, packet.to)
        path == GetPath(r, packet.to)
        nextHop == path[2]
        nextConn == GetConnection(r, nextHop)
    IN  IF direct /= NoConn
        THEN TransmitPacket(S, direct, r, [packet EXCEPT !.next = packet.to])
        ELSE IF Len(path) <= 1 THEN Raise(S, "NotConnectedError")
        ELSE IF nextConn = NoConn THEN Raise(S, "NotConnectedError")
        ELSE TransmitPacket(S, nextConn, r, [packet EXCEPT !.next = nextHop])

AdapterOf(r) == IF r = "XR" THEN "X" ELSE "Y"

\* A router records itself on the hop trail, then routes; the router of an
\* adapter routes through intercept_route_packet.
RouterHandle(S, r, packet0) ==
    LET packet == AppendHop(packet0, r)
    IN  IF r \in {"XR", "YR"} THEN ReceivePacket(S, AdapterOf(r), packet)
        ELSE RoutePacket(S, r, packet)

Handle(S, n, packet) ==
    IF n \in Hosts THEN HostHandle(S, n, packet) ELSE RouterHandle(S, n, packet)

\* A forward() that takes the newest packet of a buffer first.
RECURSIVE DrainNewestFirst(_, _, _)
DrainNewestFirst(S, n, senders) ==
    IF S.exc /= "" \/ senders = <<>> THEN S
    ELSE LET s == Head(senders)
         IN  IF S.buf[n][s] = <<>> THEN DrainNewestFirst(S, n, Tail(senders))
             ELSE LET q == S.buf[n][s]
                      packet == q[Len(q)]
                      S1 == [S EXCEPT !.buf[n][s] = SubSeq(q, 1, Len(q) - 1)]
                  IN  DrainNewestFirst(Handle(S1, n, packet), n, senders)

\* forward(): every buffer is drained in turn; a raise ends the call.
RECURSIVE Drain(_, _, _)
Drain(S, n, senders) ==
    IF S.exc /= "" \/ senders = <<>> THEN S
    ELSE LET s == Head(senders)
         IN  IF S.buf[n][s] = <<>> THEN Drain(S, n, Tail(senders))
             ELSE LET packet == Head(S.buf[n][s])
                      S1 == [S EXCEPT !.buf[n][s] = Tail(@)]
                  IN  Drain(Handle(S1, n, packet), n, senders)

NodeForward(S, n) == Drain(S, n, NodeOrder)

\* ------------------------------------------------------------------ actions
\* The heap a handler leaves, written back; a raise is recorded.
Commit(S, n) ==
    /\ buf' = S.buf
    /\ key' = S.key
    /\ pend' = S.pend
    /\ qkdCalls' = S.qkdCalls
    /\ qrecv' = S.qrecv
    /\ recv' = S.recv
    /\ events' = S.events
    /\ err' = IF S.exc = "" THEN NoErr ELSE <<n, S.exc>>

\* The state after construction: X was constructed unpaired, Y with X as its
\* paired adapter; no host is bound to an adapter.
Init ==
    /\ links = SeqToSet(ConnOrder)
    /\ gateway = [h \in Hosts |-> GatewayAfter(h, None, ConnOrder)]
    /\ bound = [h \in Hosts |-> None]
    /\ paired = [a \in Adapters |-> IF a = "Y" THEN "X" ELSE None]
    /\ buf = [n \in Nodes |-> [m \in Nodes |-> <<>>]]
    /\ key = [a \in Adapters |-> NoKey]
    /\ pend = [a \in Adapters |-> <<>>]
    /\ qkdCalls = [a \in Adapters |-> 0]
    /\ qrecv = [a \in Adapters |-> <<>>]
    /\ recv = [h \in Hosts |-> <<>>]
    /\ sentLog = <<>>
    /\ err = NoErr
    /\ nextId = 1
    /\ sessionKey = NoKey
    /\ cipher = <<>>
    /\ world = <<>>
    /\ thr = NoThread
    /\ cbCalls = [a \in Adapters |-> 0]
    /\ made = Nodes \cup Adapters
    /\ chan = {{"X", "Y"}}
    /\ events = {}

\* ClassicalHost.send_data(data, send_to), the event sink being as sink says
Send(h, sendTo, data, sink) ==
    /\ nextId <= MaxSends
    /\ LET S == SendData(Heap, h, data, sendTo, nextId, sink)
           packet == BuildPacket(h, data, sendTo, nextId)
       IN  /\ Commit(S, h)
           /\ sentLog' = IF S.exc = ""
                         THEN Append(sentLog,
                                [id |-> nextId, from |-> h, to |-> sendTo,
                                 data |-> data, bound |-> bound[h],
                                 pto |-> packet.to, dest |-> packet.dest,
                                 next |-> ResolveNextHop(h, sendTo), sink |-> sink])
                         ELSE sentLog
    /\ nextId' = nextId + 1
    /\ UNCHANGED <<links, gateway, bound, paired, sessionKey, cipher, world, cbCalls, thr, made, chan>>

\* Node.forward() of a host, a router or an adapter's local router
Forward(n) ==
    /\ \E hasTime \in BOOLEAN :
          Commit(NodeForward([Heap EXCEPT !.hasTime = hasTime], n), n)
    /\ UNCHANGED <<links, gateway, bound, paired, sentLog, nextId, sessionKey,
                   cipher, world, cbCalls, thr, made, chan>>

\* ClassicalHost.add_quantum_adapter(adapter)
AddQuantumAdapter(h, a) ==
    /\ bound' = [bound EXCEPT ![h] = a]
    /\ err' = NoErr
    /\ UNCHANGED <<links, gateway, paired, buf, key, pend, qkdCalls, qrecv, recv,
                   sentLog, nextId, sessionKey, cipher, world, cbCalls, thr, made, chan, events>>

\* add_paired_adapter without its guard.
PairedAfterAddUnguarded(a, b) ==
    [paired |-> [paired EXCEPT ![a] = b], exc |-> ""]

\* The adapter's pairing and the outcome after add_paired_adapter(b).
PairedAfterAdd(a, b) ==
    IF paired[a] /= None
    THEN [paired |-> paired, exc |-> "PairAdapterAlreadyExists"]
    ELSE [paired |-> [paired EXCEPT ![a] = b], exc |-> ""]

\* QuantumAdapter.add_paired_adapter(adapter)
AddPairedAdapter(a, b) ==
    /\ LET r == PairedAfterAdd(a, b)
       IN  /\ paired' = r.paired
           /\ err' = IF r.exc = "" THEN NoErr ELSE <<LocalRouter(a), r.exc>>
    /\ UNCHANGED <<links, gateway, bound, buf, key, pend, qkdCalls, qrecv, recv,
                   sentLog, nextId, sessionKey, cipher, world, cbCalls, thr, made, chan, events>>

\* The Connection YR - R2 is made and added to both routers.
AddConnection ==
    /\ LateConn \notin links
    /\ links' = links \cup {LateConn}
    /\ err' = NoErr
    /\ UNCHANGED <<gateway, bound, paired, buf, key, pend, qkdCalls, qrecv, recv,
                   sentLog, nextId, sessionKey, cipher, world, cbCalls, thr, made, chan, events>>

\* The quantum host of adapter a completes the key agreement and calls back
\* qkd_completed_fn = on_qkd_established, once; both hosts of a session derive
\* the same key.
QkdCompleted(a) ==
    /\ qkdCalls["X"] + qkdCalls["Y"] > 0
    /\ key[a] = NoKey
    /\ \E k \in Keys :
          /\ sessionKey \in {NoKey, <<k>>}
          /\ sessionKey' = <<k>>
          /\ Commit(OnQkdEstablished(Heap, a, k), LocalRouter(a))
    /\ cbCalls' = [cbCalls EXCEPT ![a] = @ + 1]
    /\ UNCHANGED <<links, gateway, bound, paired, sentLog, nextId, cipher, world, thr,
                   made, chan>>

\* What the quantum hosts exchange on the classical side channel.
QkdPayloads == {<<1, 0>>}

\* The quantum host of adapter a, in a QKD session, calls send_classical_data.
QkdExchange(a, data) ==
    /\ qkdCalls["X"] + qkdCalls["Y"] > 0
    /\ nextId <= MaxSetupSends + MaxQkdSends
    /\ Commit(SendClassicalData(Heap, a, data, nextId), LocalRouter(a))
    /\ nextId' = nextId + 1
    /\ UNCHANGED <<links, gateway, bound, paired, sentLog, sessionKey, cipher, world, cbCalls, thr,
                   made, chan>>

\* The scenario under construction: the setup calls and the traffic interleave.
Next ==
    \/ \E sp \in SetupSendPairs, d \in Payloads :
          nextId <= MaxSetupSends /\ Send(sp[1], sp[2], d, "ok")
    \/ \E n \in Nodes : Forward(n)
    \/ AddQuantumAdapter("Alice", "X")
    \/ \E a \in Adapters, b \in Adapters : AddPairedAdapter(a, b)
    \/ AddConnection
    \/ \E a \in Adapters : QkdCompleted(a)

Spec == Init /\ [][Next]_vars

\* The same with the quantum hosts' classical exchange.
QkdNext ==
    \/ Next
    \/ \E a \in Adapters, d \in QkdPayloads : QkdExchange(a, d)

QkdSpec == Init /\ [][QkdNext]_vars

\* The end-to-end scenario, set up: X and Y paired with each other, Alice bound
\* to X, every link made.
E2EInit ==
    /\ links = SeqToSet(ConnOrder) \cup {LateConn}
    /\ gateway = [h \in Hosts |-> GatewayAfter(h, None, ConnOrder)]
    /\ bound = [h \in Hosts |-> IF h = "Alice" THEN "X" ELSE None]
    /\ paired = [a \in Adapters |-> IF a = "Y" THEN "X" ELSE "Y"]
    /\ buf = [n \in Nodes |-> [m \in Nodes |-> <<>>]]
    /\ key = [a \in Adapters |-> NoKey]
    /\ pend = [a \in Adapters |-> <<>>]
    /\ qkdCalls = [a \in Adapters |-> 0]
    /\ qrecv = [a \in Adapters |-> <<>>]
    /\ recv = [h \in Hosts |-> <<>>]
    /\ sentLog = <<>>
    /\ err = NoErr
    /\ nextId = 1
    /\ sessionKey = NoKey
    /\ cipher = <<>>
    /\ world = <<>>
    /\ thr = NoThread
    /\ cbCalls = [a \in Adapters |-> 0]
    /\ made = Nodes \cup Adapters
    /\ chan = {{"X", "Y"}}
    /\ events = {}

E2ENext ==
    \/ \E sp \in SendPairs, d \in Payloads : Send(sp[1], sp[2], d, "ok")
    \/ \E n \in Nodes : Forward(n)
    \/ \E a \in Adapters : QkdCompleted(a)

E2ESpec == E2EInit /\ [][E2ENext]_vars

\* The quantum host of adapter a completes a further session, one that a
\* further perform_qkd started, and calls back again with that session's key.
QkdCompletedAgain(a) ==
    /\ cbCalls[a] >= 1
    /\ cbCalls[a] < qkdCalls["X"] + qkdCalls["Y"]
    /\ \E k \in Keys :
          /\ sessionKey' = <<k>>
          /\ Commit(OnQkdEstablished(Heap, a, k), LocalRouter(a))
    /\ cbCalls' = [cbCalls EXCEPT ![a] = @ + 1]
    /\ UNCHANGED <<links, gateway, bound, paired, sentLog, nextId, cipher, world, thr,
                   made, chan>>

\* The end-to-end scenario with one callback for every perform_qkd.
KeyNext ==
    \/ E2ENext
    \/ \E a \in Adapters : QkdCompletedAgain(a)

KeySpec == E2EInit /\ [][KeyNext]_vars


\* ------------------------------------------------- hosts under construction
\* The Connections the hosts' scenario can make, with Alice at either
\* endpoint; Bob stays without a Connection.
HostConnPairs == {<<"Carol", "Alice">>, <<"Alice", "Carol">>,
                  <<"Alice", "R1">>, <<"R1", "Alice">>}

HostSendPairs == {<<"Alice", "Carol">>, <<"Alice", "Bob">>, <<"Carol", "Alice">>}

\* Node.__init__: the creation is logged and the event emitted.
NodeInit(S, n, sink) == EmitEvent(S, sink, <<"creation", n>>)

\* The routers, the adapters, Carol and Bob exist; Alice has not been
\* constructed and no Connection made.
HostInit ==
    /\ links = {}
    /\ gateway = [h \in Hosts |-> None]
    /\ E2EInit!4 /\ E2EInit!5 /\ E2EInit!6 /\ E2EInit!7 /\ E2EInit!8
    /\ E2EInit!9 /\ E2EInit!10 /\ E2EInit!11 /\ E2EInit!12 /\ E2EInit!13
    /\ E2EInit!14
    /\ bound = [h \in Hosts |-> None]
    /\ cipher = <<>>
    /\ world = <<>>
    /\ thr = NoThread
    /\ cbCalls = [a \in Adapters |-> 0]
    /\ made = Routers \cup Adapters \cup {"Carol", "Bob"}
    /\ chan = {{"X", "Y"}}
    /\ events = {<<"creation", n>> : n \in {"Carol", "Bob"}}

\* ClassicalHost(...): Node.__init__, then default_gateway and quantum_adapter
\* are None.
CreateHost(h, sink) ==
    /\ h \notin made
    /\ LET S == NodeInit(Heap, h, sink)
       IN  /\ Commit(S, h)
           /\ made' = IF S.exc = "" THEN made \cup {h} ELSE made
    /\ gateway' = [gateway EXCEPT ![h] = None]
    /\ bound' = [bound EXCEPT ![h] = None]
    /\ UNCHANGED <<links, paired, sentLog, nextId, sessionKey, cipher, world, cbCalls, thr, chan>>

\* A Connection(n1, n2) is made and add_connection called on both endpoints.
Connect(n1, n2) ==
    /\ n1 /= n2
    /\ {n1, n2} \subseteq made
    /\ GetConnection(n1, n2) = NoConn
    /\ Cardinality(links) < MaxConnections
    /\ links' = links \cup {<<n1, n2>>}
    /\ gateway' = [h \in Hosts |->
                      IF h \in {n1, n2} THEN HostAddConnection(h, gateway[h], <<n1, n2>>)
                      ELSE gateway[h]]
    /\ err' = NoErr
    /\ UNCHANGED <<bound, paired, buf, key, pend, qkdCalls, qrecv, recv, sentLog,
                   nextId, sessionKey, cipher, world, cbCalls, thr, made, chan, events>>

HostNext ==
    \/ \E h \in Hosts, sink \in Sinks : CreateHost(h, sink)
    \/ \E c \in HostConnPairs : Connect(c[1], c[2])
    \/ "Alice" \in made /\ AddQuantumAdapter("Alice", "X")
    \/ \E sp \in HostSendPairs, sink \in Sinks :
          /\ {sp[1], sp[2]} \subseteq made
          /\ nextId <= MaxHostSends
          /\ Send(sp[1], sp[2], Hello, sink)
    \/ \E h \in Hosts \cap made : Forward(h)

HostSpec == HostInit /\ [][HostNext]_vars


\* ---------------------------------------------- adapters under construction
\* The hosts and the plain routers exist; no adapter has been constructed and
\* no quantum channel set up.
PairInit ==
    /\ links = {c \in SeqToSet(ConnOrder) : {c[1], c[2]} \cap {"XR", "YR"} = {}}
    /\ Init!2 /\ Init!3
    /\ paired = [a \in Adapters |-> None]
    /\ Init!5 /\ Init!6 /\ Init!7 /\ Init!8 /\ Init!9 /\ Init!10 /\ Init!11
    /\ Init!12 /\ Init!13 /\ Init!14
    /\ cipher = <<>>
    /\ world = <<>>
    /\ thr = NoThread
    /\ cbCalls = [a \in Adapters |-> 0]
    /\ made = Nodes \ {"XR", "YR"}
    /\ chan = {}
    /\ events = {}

\* channel_exists on the adapter's quantum host.
ChannelExists(a, b) == {a, b} \in chan

\* A quantum channel is set up between the quantum hosts of two adapters.
AddChannel(a, b) ==
    /\ a /= b
    /\ ~ChannelExists(a, b)
    /\ chan' = chan \cup {{a, b}}
    /\ err' = NoErr
    /\ UNCHANGED <<links, gateway, bound, paired, buf, key, pend, qkdCalls, qrecv,
                   recv, sentLog, nextId, sessionKey, cipher, world, cbCalls, thr, made, events>>

\* QuantumAdapter(..., paired_adapter = b, ...): Node.__init__, the local
\* router, the Connection to the partner's router, then the channel check; a
\* constructor that raises returns no adapter, and what it did before stays.
Construct(a, b, sink) ==
    /\ a \notin made
    /\ b \in {None} \cup (Adapters \cap made)
    /\ LET S0 == NodeInit(Heap, a, sink)
           S1 == NodeInit(S0, LocalRouter(a), sink)
           S == IF b /= None /\ ~ChannelExists(a, b)
                THEN Raise(S1, "QuantumChannelDoesNotExists") ELSE S1
       IN  /\ Commit(S, LocalRouter(a))
           /\ links' = IF b /= None
                       THEN links \cup {<<LocalRouter(a), LocalRouter(b)>>}
                       ELSE links
           /\ made' = IF S.exc = "" THEN made \cup {a, LocalRouter(a)} ELSE made
           /\ paired' = IF S.exc = "" THEN [paired EXCEPT ![a] = b] ELSE paired
    /\ UNCHANGED <<gateway, bound, sentLog, nextId, sessionKey, cipher, world, cbCalls, thr, chan>>

PairNext ==
    \/ \E a \in Adapters, b \in Adapters : AddChannel(a, b)
    \/ \E a \in Adapters, b \in Adapters \cup {None}, sink \in Sinks :
          Construct(a, b, sink)
    \/ \E a \in Adapters \cap made, b \in Adapters \cap made :
          a /= b /\ AddPairedAdapter(a, b)

PairSpec == PairInit /\ [][PairNext]_vars


\* --------------------------------------------------------- the cipher alone
SeqsUpTo(S, lo, hi) == UNION {[1..n -> S] : n \in lo..hi}

\* A payload and a key are drawn; the adapters are those of the end-to-end
\* scenario and hold the key.
CipherInit ==
    /\ E2EInit!1 /\ E2EInit!2 /\ E2EInit!3 /\ E2EInit!4 /\ E2EInit!5
    /\ E2EInit!6 /\ E2EInit!7 /\ E2EInit!8 /\ E2EInit!9 /\ E2EInit!10
    /\ E2EInit!11 /\ E2EInit!12 /\ E2EInit!13 /\ E2EInit!14
    /\ world = <<>>
    /\ thr = NoThread
    /\ cbCalls = [a \in Adapters |-> 0]
    /\ made = Nodes \cup Adapters
    /\ chan = {{"X", "Y"}}
    /\ events = {}
    /\ \E p \in SeqsUpTo(ByteSamples, 0, MaxPayloadLen),
          k \in SeqsUpTo({0, 1}, 1, MaxKeyLen) :
          cipher = [stage |-> "plain", p |-> p, k |-> k,
                    wire |-> <<>>, out |-> <<>>]

\* Adapter X, holding the key, encrypts Alice's packet for Bob.
CipherEncrypt ==
    /\ cipher.stage = "plain"
    /\ cipher' = [cipher EXCEPT
          !.stage = "wire",
          !.wire = EncryptPacket("X", cipher.k,
                      NewPacket("ClassicDataPacket", 1, cipher.p, "Alice", "XR", "Bob"))]
    /\ UNCHANGED <<netVars, world>>

\* Adapter Y, holding the same key, decrypts what X encrypted.
CipherDecrypt ==
    /\ cipher.stage = "wire"
    /\ cipher' = [cipher EXCEPT
          !.stage = "done",
          !.out = DecryptPacket("Y", cipher.k, cipher.wire)]
    /\ UNCHANGED <<netVars, world>>

CipherNext == CipherEncrypt \/ CipherDecrypt

CipherSpec == CipherInit /\ [][CipherNext]_vars

\* ------------------------------------------------ the sequential coordinator
\* world.loops[t] is the coordinator thread t that start_sequential made: where
\* it is in _game_loop (pc) and the network its for loop is at (idx).
NoLoop == [pc |-> "none", idx |-> 0]

WorldInit ==
    /\ Init!1 /\ Init!2 /\ Init!3 /\ Init!4 /\ Init!5 /\ Init!6 /\ Init!7
    /\ Init!8 /\ Init!9 /\ Init!10 /\ Init!11 /\ Init!12 /\ Init!13 /\ Init!14
    /\ cipher = <<>>
    /\ thr = NoThread
    /\ cbCalls = [a \in Adapters |-> 0]
    /\ made = Nodes \cup Adapters
    /\ chan = {{"X", "Y"}}
    /\ events = {}
    /\ \E n \in 0..MaxNetworks :
          world = [networks |-> n,                 \* len(self.networks)
                   stopFlag |-> FALSE,             \* sequential_stop_flag
                   seqRunning |-> FALSE,           \* is_sequential_running
                   loops |-> [t \in 1..MaxLoops |-> NoLoop],
                   starts |-> 0,                   \* calls of start_sequential
                   running |-> [i \in 1..MaxNetworks |-> FALSE],
                                                   \* Network.is_running of each
                   sinceStop |-> -1,               \* sleeps since a pending stop()
                   stoppedSince |-> [t \in 1..MaxLoops |-> FALSE]]
                                 \* stop() was called since thread t was started

\* start_sequential: a new thread runs _game_loop.
StartSequential ==
    /\ \E t \in 1..MaxLoops :
          /\ world.loops[t].pc = "none"
          /\ \A u \in 1..(t - 1) : world.loops[u].pc /= "none"
          /\ world' = [world EXCEPT !.loops[t] = [pc |-> "begin", idx |-> 0],
                                    !.stoppedSince[t] = FALSE,
                                    !.starts = IF @ < MaxLoops THEN @ + 1 ELSE @]
    /\ UNCHANGED <<netVars, cipher>>

\* line 51: self.is_sequential_running = True
LoopBegin(t) ==
    /\ world.loops[t].pc = "begin"
    /\ world' = [world EXCEPT !.seqRunning = TRUE, !.loops[t].pc = "test"]
    /\ UNCHANGED <<netVars, cipher>>

\* line 56: while not self.sequential_stop_flag
LoopTest(t) ==
    /\ world.loops[t].pc = "test"
    /\ world' = IF world.stopFlag
                THEN [world EXCEPT !.loops[t].pc = "exit", !.sinceStop = -1]
                ELSE [world EXCEPT !.loops[t] = [pc |-> "for", idx |-> 1]]
    /\ UNCHANGED <<netVars, cipher>>

\* lines 57-58: the next network's _forward(), or the end of the for loop.
\* _forward() returns, or a node's forward raises (as QuantumAdapter.forward
\* does on NotConnectedError): nothing in _game_loop catches, the exception
\* ends the thread.
LoopForward(t) ==
    /\ world.loops[t].pc = "for"
    /\ \E raises \in BOOLEAN :
          world' = IF world.loops[t].idx > world.networks
                   THEN [world EXCEPT !.loops[t].pc = "test"]
                   ELSE IF raises THEN [world EXCEPT !.loops[t].pc = "dead"]
                   ELSE [world EXCEPT !.loops[t].pc = "sleep"]
    /\ UNCHANGED <<netVars, cipher>>

\* line 59: time.sleep(fps), inside the for loop
LoopSleep(t) ==
    /\ world.loops[t].pc = "sleep"
    /\ world' = [world EXCEPT
          !.loops[t] = [pc |-> "for", idx |-> @.idx + 1],
          !.sinceStop = IF @ >= 0 /\ @ < MaxSleeps THEN @ + 1 ELSE @]
    /\ UNCHANGED <<netVars, cipher>>

\* line 61: self.sequential_stop_flag = False
LoopClearFlag(t) ==
    /\ world.loops[t].pc = "exit"
    /\ world' = [world EXCEPT !.stopFlag = FALSE, !.loops[t].pc = "exited"]
    /\ UNCHANGED <<netVars, cipher>>

\* line 62: self.is_sequential_running = False; the thread ends
LoopEnd(t) ==
    /\ world.loops[t].pc = "exited"
    /\ world' = [world EXCEPT !.seqRunning = FALSE, !.loops[t] = NoLoop]
    /\ UNCHANGED <<netVars, cipher>>

\* The world after stop().
WorldAfterStop(w) ==
    [w EXCEPT !.stopFlag = TRUE,
              !.running = [i \in 1..MaxNetworks |-> FALSE],
              !.stoppedSince = [t \in 1..MaxLoops |-> w.loops[t].pc /= "none" \/ @[t]],
              !.sinceStop = IF \E t \in 1..MaxLoops :
                                  w.loops[t].pc \in {"begin", "test", "for", "sleep"}
                            THEN (IF @ = -1 THEN 0 ELSE @)
                            ELSE @]

\* World.stop()
Stop ==
    /\ world' = WorldAfterStop(world)
    /\ UNCHANGED <<netVars, cipher>>

\* World.start(): every network starts its own tick driver.
Start ==
    /\ world' = [world EXCEPT !.running = [i \in 1..MaxNetworks |-> i <= world.networks]]
    /\ UNCHANGED <<netVars, cipher>>

\* Network.stop() of one network.
NetworkStop(i) ==
    /\ i <= world.networks
    /\ world.running[i]
    /\ world' = [world EXCEPT !.running[i] = FALSE]
    /\ UNCHANGED <<netVars, cipher>>

\* World.is_running(): all(...) over the networks, or the coordinator's flag.
IsRunning(w) ==
    (\A i \in 1..w.networks : w.running[i]) \/ w.seqRunning

WorldNext ==
    \/ StartSequential
    \/ Start
    \/ \E i \in 1..MaxNetworks : NetworkStop(i)
    \/ \E t \in 1..MaxLoops :
          \/ LoopBegin(t) \/ LoopTest(t) \/ LoopForward(t) \/ LoopSleep(t)
          \/ LoopClearFlag(t) \/ LoopEnd(t)
    \/ Stop

WorldSpec == WorldInit /\ [][WorldNext]_vars

\* ------------------------------------- adapters paired after construction
\* Both adapters were constructed with paired_adapter = None, so that no
\* Connection joins their local routers; Alice is bound to X and every other
\* link is made.
DrainInit ==
    /\ links = (SeqToSet(ConnOrder) \ {<<"YR", "XR">>}) \cup {LateConn}
    /\ E2EInit!2 /\ E2EInit!3
    /\ paired = [a \in Adapters |-> None]
    /\ E2EInit!5 /\ E2EInit!6 /\ E2EInit!7 /\ E2EInit!8 /\ E2EInit!9
    /\ E2EInit!10 /\ E2EInit!11 /\ E2EInit!12 /\ E2EInit!13 /\ E2EInit!14
    /\ cipher = <<>>
    /\ world = <<>>
    /\ thr = NoThread
    /\ cbCalls = [a \in Adapters |-> 0]
    /\ made = Nodes \cup Adapters
    /\ chan = {{"X", "Y"}}
    /\ events = {}

\* A Connection between the two local routers is made and added to both.
ConnectRouters ==
    /\ GetConnection("XR", "YR") = NoConn
    /\ links' = links \cup {<<"XR", "YR">>}
    /\ err' = NoErr
    /\ UNCHANGED <<gateway, bound, paired, buf, key, pend, qkdCalls, qrecv, recv,
                   sentLog, nextId, sessionKey, cipher, world, cbCalls, thr, made,
                   chan, events>>

DrainNext ==
    \/ \E d \in Payloads : nextId <= MaxHostSends /\ Send("Alice", "Bob", d, "ok")
    \/ \E n \in Nodes : Forward(n)
    \/ \E a \in Adapters, b \in Adapters : a /= b /\ AddPairedAdapter(a, b)
    \/ ConnectRouters
    \/ \E a \in Adapters : QkdCompleted(a)

DrainSpec == DrainInit /\ [][DrainNext]_vars

\* ------------------------------------------- the callback and the tick thread
\* The tick thread runs forward() of the local router of adapter a and the
\* quantum host's thread runs on_qkd_established, each statement by statement.
\* The router takes the next waiting packet, records itself in the hop trail
\* and calls receive_packet; a packet for the else branch stops before the
\* test of line 129, any other is handled in this step.
FirstWaiting(n) ==
    CHOOSE i \in 1..Len(NodeOrder) :
       /\ buf[n][NodeOrder[i]] /= <<>>
       /\ \A j \in 1..(i - 1) : buf[n][NodeOrder[j]] = <<>>

TickTake(a) ==
    LET r == LocalRouter(a)
    IN  /\ thr.pc = "idle"
        /\ \E m \in Nodes : buf[r][m] /= <<>>
        /\ LET s == NodeOrder[FirstWaiting(r)]
               packet == AppendHop(Head(buf[r][s]), r)
               S1 == [Heap EXCEPT !.buf[r][s] = Tail(@)]
           IN  IF BranchOf(a, packet) = "data"
               THEN /\ Commit(S1, r)
                    /\ thr' = [thr EXCEPT !.pc = "test", !.pkt = <<packet>>]
               ELSE /\ Commit(ReceivePacket(S1, a, packet), r)
                    /\ thr' = thr
        /\ UNCHANGED <<links, gateway, bound, paired, sentLog, nextId, sessionKey,
                       cipher, world, cbCalls, made, chan>>

\* Line 129: `if self.shared_key is None and self.paired_adapter is not None`
TickTest(a) ==
    /\ thr.pc = "test"
    /\ thr' = [thr EXCEPT !.pc = IF NeedsQkd(Heap, a) THEN "initiate" ELSE "send"]
    /\ UNCHANGED <<objVars, cipher, world>>

\* Line 132: self.initiate_qkd()
TickInitiate(a) ==
    /\ thr.pc = "initiate"
    /\ LET S == InitiateQkd(Heap, a)
       IN  /\ Commit(S, LocalRouter(a))
           /\ thr' = IF S.exc = "" THEN [thr EXCEPT !.pc = "park"]
                     ELSE [thr EXCEPT !.pc = "idle", !.pkt = <<>>]
    /\ UNCHANGED <<links, gateway, bound, paired, sentLog, nextId, sessionKey,
                   cipher, world, cbCalls, made, chan>>

\* Lines 133-134: self.input_data_buffer.put(packet); return
TickPark(a) ==
    /\ thr.pc = "park"
    /\ Commit(ParkPacket(Heap, a, thr.pkt[1]), LocalRouter(a))
    /\ thr' = [thr EXCEPT !.pc = "idle", !.pkt = <<>>]
    /\ UNCHANGED <<links, gateway, bound, paired, sentLog, nextId, sessionKey,
                   cipher, world, cbCalls, made, chan>>

\* Lines 136-154: the packet is encrypted and forwarded.
TickSend(a) ==
    /\ thr.pc = "send"
    /\ Commit(DispatchKeyed(Heap, a, thr.pkt[1]), LocalRouter(a))
    /\ thr' = [thr EXCEPT !.pc = "idle", !.pkt = <<>>]
    /\ UNCHANGED <<links, gateway, bound, paired, sentLog, nextId, sessionKey,
                   cipher, world, cbCalls, made, chan>>

\* Line 90 of on_qkd_established: self.shared_key = key
CallbackSetKey(a) ==
    /\ thr.cb = "idle"
    /\ qkdCalls[a] > 0
    /\ key[a] = NoKey
    /\ \E k \in Keys :
          /\ sessionKey' = <<k>>
          /\ key' = [key EXCEPT ![a] = <<k>>]
    /\ thr' = [thr EXCEPT !.cb = "drain"]
    /\ err' = NoErr
    /\ cbCalls' = [cbCalls EXCEPT ![a] = @ + 1]
    /\ UNCHANGED <<links, gateway, bound, paired, buf, pend, qkdCalls, qrecv, recv,
                   sentLog, nextId, cipher, world, made, chan, events>>

\* Lines 93-95: one turn of the loop over input_data_buffer, or its end.
CallbackDrain(a) ==
    /\ thr.cb = "drain"
    /\ IF pend[a] = <<>>
       THEN /\ thr' = [thr EXCEPT !.cb = "done"]
            /\ err' = NoErr
            /\ UNCHANGED <<buf, key, pend, qkdCalls, qrecv, recv, events>>
       ELSE /\ Commit(ReceivePacket([Heap EXCEPT !.pend[a] = Tail(@)], a,
                                    Head(pend[a])), LocalRouter(a))
            /\ thr' = thr
    /\ UNCHANGED <<links, gateway, bound, paired, sentLog, nextId, sessionKey,
                   cipher, world, cbCalls, made, chan>>

\* Alice's packets reach XR through R1 while the two threads run.
RaceNext ==
    \/ \E d \in Payloads : nextId <= MaxHostSends /\ Send("Alice", "Bob", d, "ok")
    \/ thr.pc = "idle" /\ Forward("R1")
    \/ TickTake("X")
    \/ TickTest("X")
    \/ TickInitiate("X")
    \/ TickPark("X")
    \/ TickSend("X")
    \/ CallbackSetKey("X")
    \/ CallbackDrain("X")

RaceSpec == E2EInit /\ [][RaceNext]_vars

\* ------------------------------------------ a send while a forward() drains
\* Line 49: packet = buffer.get(), the head of the queue is removed.
BufferGetKeeps(S, n, s) == S

BufferGet(S, n, s) == [S EXCEPT !.buf[n][s] = Tail(@)]

\* Line 47: the iteration over self.buffers begins.
FwdBegin(h) ==
    /\ thr.pc = "idle"
    /\ thr' = [thr EXCEPT !.pc = "loop", !.rest = NodeOrder, !.since = nextId]
    /\ UNCHANGED <<objVars, cipher, world>>

\* Line 48: `while not buffer.empty()`, and the step to the next buffer or
\* the end of forward().
FwdLoop(h) ==
    /\ thr.pc = "loop"
    /\ thr' = IF thr.rest = <<>> THEN [thr EXCEPT !.pc = "idle"]
              ELSE IF buf[h][Head(thr.rest)] = <<>>
              THEN [thr EXCEPT !.rest = Tail(@)]
              ELSE [thr EXCEPT !.pc = "get"]
    /\ UNCHANGED <<objVars, cipher, world>>

\* Line 49: packet = buffer.get(); get() waits while the queue is empty.
FwdGet(h) ==
    /\ thr.pc = "get"
    /\ buf[h][Head(thr.rest)] /= <<>>
    /\ LET packet == Head(buf[h][Head(thr.rest)])
       IN  /\ Commit(BufferGet(Heap, h, Head(thr.rest)), h)
           /\ thr' = [thr EXCEPT !.pc = "handle", !.pkt = <<packet>>,
                                 !.taken = Append(@, packet.id)]
    /\ UNCHANGED <<links, gateway, bound, paired, sentLog, nextId, sessionKey,
                   cipher, world, cbCalls, made, chan>>

\* Lines 51-54: the packet is received or dropped.
FwdHandle(h) ==
    /\ thr.pc = "handle"
    /\ Commit(HostHandle(Heap, h, thr.pkt[1]), h)
    /\ thr' = [thr EXCEPT !.pc = "loop", !.pkt = <<>>]
    /\ UNCHANGED <<links, gateway, bound, paired, sentLog, nextId, sessionKey,
                   cipher, world, cbCalls, made, chan>>

\* Carol's thread sends to Alice, or through Alice, while Alice's thread is
\* in forward().
BufSendPairs == {<<"Carol", "Alice">>, <<"Carol", "Bob">>}

BufNext ==
    \/ \E sp \in BufSendPairs, d \in Payloads : Send(sp[1], sp[2], d, "ok")
    \/ FwdBegin("Alice")
    \/ FwdLoop("Alice")
    \/ FwdGet("Alice")
    \/ FwdHandle("Alice")

BufSpec == Init /\ [][BufNext]_vars

\* ------------------------------------------------------------------ claims
Ids(q) == [i \in 1..Len(q) |-> q[i].id]

\* How many packets of the queue q carry the tag id.
CountIn(q, id) == Cardinality({i \in 1..Len(q) : q[i].id = id})

\* The packets a step appended to the buffer that receiver keeps for sender.
Appended(receiver, sender) ==
    SubSeq(buf'[receiver][sender], Len(buf[receiver][sender]) + 1,
           Len(buf'[receiver][sender]))

\* The step is the key-completion callback of adapter a.
IsCallback(a) == key[a] = NoKey /\ key'[a] /= NoKey

\* C1: while a paired adapter holds no key and has packets parked, QKD was
\* initiated on its quantum host exactly once.
C1_QkdInitiatedOnce ==
    \A a \in Adapters :
        (paired[a] /= None /\ key[a] = NoKey /\ pend[a] /= <<>>) => qkdCalls[a] = 1

\* The packet tagged id is held somewhere: in a node's inbound buffer or parked
\* at an adapter.
InFlight(id) ==
    \/ \E n \in Nodes, m \in Nodes : CountIn(buf[n][m], id) > 0
    \/ \E a \in Adapters : CountIn(pend[a], id) > 0

\* C2: in the end-to-end scenario a payload Alice sent to Bob is never lost:
\* until Bob's receive_data has observed it, unchanged, its packet is held by
\* some node on the way (so that fair ticking delivers it).
C2_HelloNotLost ==
    \A i \in 1..Len(sentLog) :
        (sentLog[i].from = "Alice" /\ sentLog[i].to = "Bob") =>
            \/ InFlight(sentLog[i].id)
            \/ \E j \in 1..Len(recv["Bob"]) :
                  /\ recv["Bob"][j].id = sentLog[i].id
                  /\ recv["Bob"][j].data = sentLog[i].data

\* C3: the hop trail of every packet of Alice that Bob receives holds the local
\* routers of both adapters.
C3_HopTrailBothAdapters ==
    \A j \in 1..Len(recv["Bob"]) :
        recv["Bob"][j].from = "Alice" =>
            {"XR", "YR"} \subseteq SeqToSet(recv["Bob"][j].hops)

\* C4: the callback of a properly paired adapter appends the parked packets to
\* the paired router's buffer in the order they were parked, each encrypted
\* under the new key and addressed to the paired router.
C4_ParkedOrderKept ==
    [][\A a \in Adapters :
          (IsCallback(a) /\ paired[a] /= a) =>
              LET new == Appended(LocalRouter(paired[a]), LocalRouter(a))
              IN  /\ Ids(new) = Ids(pend[a])
                  /\ \A i \in 1..Len(new) :
                        /\ new[i].to = LocalRouter(paired[a])
                        /\ pend[a][i].to = LocalRouter(a) =>
                              new[i].data = SimpleXorEncrypt(pend[a][i].data, key'[a][1])
      ]_vars

C4_Witness ==
    /\ qkdCalls["X"] >= 2 /\ key["X"] /= NoKey
    /\ Len(buf["YR"]["XR"]) >= 2

C6_PairingOneTime ==
    [][\A a \in Adapters :
          /\ paired[a] /= None => paired'[a] = paired[a]
          /\ err' = <<LocalRouter(a), "PairAdapterAlreadyExists">> =>
                /\ paired[a] /= None
                /\ UNCHANGED <<links, gateway, bound, paired, buf, key, pend,
                               qkdCalls, qrecv, recv, sentLog, nextId, sessionKey>>
      ]_vars

C6_Witness ==
    /\ err = <<"XR", "PairAdapterAlreadyExists">>
    /\ paired["X"] = "Y"
    /\ pend["X"] /= <<>>

\* C7: a payload sent by an unbound host to a directly connected host waits in
\* the receiver's buffer for the sender and, from the receiver's next forward
\* on, has been received exactly once, unchanged; a forward leaves no packet
\* waiting.
C7_DirectDelivery ==
    /\ [](\A i \in 1..Len(sentLog) :
            LET e == sentLog[i]
            IN  (e.bound = None /\ {e.from, e.to} = {"Alice", "Carol"}) =>
                    LET got == {j \in 1..Len(recv[e.to]) : recv[e.to][j].id = e.id}
                    IN  /\ CountIn(buf[e.to][e.from], e.id) + Cardinality(got) = 1
                        /\ \A j \in got : /\ recv[e.to][j].data = e.data
                                          /\ recv[e.to][j].type = "DATA")
    /\ [][\A h \in Hosts :
            (\E m \in Nodes : Len(buf'[h][m]) < Len(buf[h][m])) =>
                \A m \in Nodes : buf'[h][m] = <<>>
         ]_vars

C7_Witness ==
    \E i \in 1..Len(sentLog) :
        /\ sentLog[i].from = "Alice" /\ sentLog[i].to = "Carol"
        /\ sentLog[i].bound = None
        /\ Len(recv["Carol"]) = 1
        /\ recv["Carol"][1].data = sentLog[i].data
        /\ buf["Carol"]["Alice"] = <<>>

\* The packet a forward() of node r handles first.
FirstHandled(r, senders) ==
    LET waiting == {i \in 1..Len(senders) : buf[r][senders[i]] /= <<>>}
        first == CHOOSE i \in waiting : \A j \in waiting : i <= j
    IN  AppendHop(Head(buf[r][senders[first]]), r)

\* The target and the packet that adapter a, holding a key, hands to
\* forward_packet for packet p.
ForwardCall(a, p) ==
    IF p.hops[Len(p.hops) - 1] = LocalRouter(paired[a])
    THEN LET to == IF p.dest /= None THEN p.dest ELSE p.to
         IN  [to |-> to, packetTo |-> to]
    ELSE IF p.to = LocalRouter(a)
    THEN [to |-> LocalRouter(paired[a]), packetTo |-> LocalRouter(paired[a])]
    ELSE [to |-> LocalRouter(paired[a]), packetTo |-> p.to]

NoRoute(r, call) ==
    /\ GetConnection(r, call.to) = NoConn
    /\ Len(GetPath(r, call.packetTo)) <= 1

\* C9: when the first packet a keyed adapter handles, in a forward() of its
\* router or in the key-completion callback, is to be forwarded to a target
\* with no direct Connection and no path, the call raises NotConnectedError
\* and no node's buffer gains a packet.
C9_UnreachableRaises ==
    [][\A a \in Adapters :
          LET r == LocalRouter(a)
              ticked == \E m \in Nodes : Len(buf'[r][m]) < Len(buf[r][m])
              unreachable ==
                  \/ /\ ticked /\ paired[a] /= None /\ Truthy(key[a])
                     /\ FirstHandled(r, NodeOrder).cls = "ClassicDataPacket"
                     /\ NoRoute(r, ForwardCall(a, FirstHandled(r, NodeOrder)))
                  \/ /\ IsCallback(a) /\ pend[a] /= <<>> /\ paired[a] /= None
                     /\ NoRoute(r, ForwardCall(a, Head(pend[a])))
          IN  unreachable =>
                  /\ err' = <<r, "NotConnectedError">>
                  /\ \A n \in Nodes, m \in Nodes :
                        Len(buf'[n][m]) <= Len(buf[n][m])
                  /\ recv' = recv
      ]_vars

C9_Witness ==
    /\ err = <<"YR", "NotConnectedError">>
    /\ Truthy(key["Y"])
    /\ LateConn \notin links
    /\ \A n \in Nodes, m \in Nodes : buf[n][m] = <<>>

\* C8: the payload X encrypts and Y decrypts under the same key comes out as it
\* went in, and so does every payload through the cipher's two functions.
C8_CipherRoundTrip ==
    /\ SimpleXorDecrypt(SimpleXorEncrypt(cipher.p, cipher.k), cipher.k) = cipher.p
    /\ cipher.stage = "done" =>
          /\ cipher.wire.data = SimpleXorEncrypt(cipher.p, cipher.k)
          /\ cipher.out.data = cipher.p

C8_Witness ==
    /\ cipher.stage = "done"
    /\ Len(cipher.p) > Len(cipher.k)
    /\ \A i \in 1..Len(cipher.p) : cipher.wire.data[i] /= cipher.p[i]
    /\ cipher.out.data = cipher.p

\* C10: while a single coordinator has a stop() pending, at most one sleep
\* interval elapses before it observes the stop flag.
C10_StopWithinOneTick ==
    world.starts <= 1 => world.sinceStop <= 1

\* ---------------------------------------------------------------- C11 - C15
\* The notification of the send that a step made.
LastSent == sentLog'[Len(sentLog')]

\* The packet that send put at the tail of a buffer.
LastSentPacket ==
    LET q == buf'[LastSent.next][LastSent.from] IN q[Len(q)]

HasConnection(a, b) == GetConnection(a, b) /= NoConn

\* C11: the next hop of a packet that send_data transmits is the packet's
\* immediate target (its to) when the host has a direct Connection to it, and
\* the default gateway otherwise.
C11_NextHopImmediateTarget ==
    [][Len(sentLog') > Len(sentLog) =>
          LastSentPacket.next =
              IF HasConnection(LastSent.from, LastSentPacket.to)
              THEN LastSentPacket.to
              ELSE gateway[LastSent.from]
      ]_vars

\* C12: send_data raises DefaultGatewayNotFound exactly when the host has
\* neither a direct Connection to the immediate target nor a default gateway,
\* raises NotConnectedError when the resolved next hop has no Connection, and
\* in both cases leaves every buffer, the notifications and the events alone.
C12_SendRaises ==
    [][\A sp \in HostSendPairs, sink \in Sinks :
          Send(sp[1], sp[2], Hello, sink) =>
             LET h == sp[1]
                 target == IF bound[h] /= None THEN LocalRouter(bound[h]) ELSE sp[2]
                 noGateway == ~HasConnection(h, target) /\ gateway[h] = None
                 nextHop == IF HasConnection(h, sp[2]) THEN sp[2] ELSE gateway[h]
             IN  /\ (err' = <<h, "DefaultGatewayNotFound">>) <=> noGateway
                 /\ (~noGateway /\ ~HasConnection(h, nextHop))
                       => err' = <<h, "NotConnectedError">>
                 /\ err' /= NoErr =>
                       /\ err'[2] \in {"DefaultGatewayNotFound", "NotConnectedError"}
                       /\ buf' = buf /\ sentLog' = sentLog /\ events' = events
      ]_vars

C12_Witness ==
    /\ err = <<"Alice", "NotConnectedError">>
    /\ \E n \in Nodes : HasConnection("Alice", n)

\* C13: a packet that send_data builds has, for a host bound to an adapter,
\* to = the adapter's local router and finalDestination = the destination,
\* and for a host not bound, to = the destination and no finalDestination.
C13_PacketAddressing ==
    [][Len(sentLog') > Len(sentLog) =>
          IF bound[LastSent.from] /= None
          THEN /\ LastSentPacket.to = LocalRouter(bound[LastSent.from])
               /\ LastSentPacket.dest = LastSent.to
          ELSE /\ LastSentPacket.to = LastSent.to
               /\ LastSentPacket.dest = None
      ]_vars

C13_Witness ==
    /\ \E i \in 1..Len(sentLog) : sentLog[i].bound /= None
    /\ \E i \in 1..Len(sentLog) : sentLog[i].bound = None

\* The ids of the packets waiting at host h that are addressed to h.
WaitingFor(h) ==
    UNION {{buf[h][m][i].id : i \in {j \in 1..Len(buf[h][m]) : buf[h][m][j].to = h}}
             : m \in Nodes}

\* C14: forward() of a host empties every inbound buffer of the host, hands
\* each packet addressed to the host to recive_packet once, drops the others,
\* and does not raise.
C14_HostForwardDrains ==
    [][\A h \in Hosts :
          Forward(h) =>
             LET delivered == SubSeq(recv'[h], Len(recv[h]) + 1, Len(recv'[h]))
             IN  /\ \A m \in Nodes : buf'[h][m] = <<>>
                 /\ err' = NoErr
                 /\ SubSeq(recv'[h], 1, Len(recv[h])) = recv[h]
                 /\ {delivered[i].id : i \in 1..Len(delivered)} = WaitingFor(h)
                 /\ Len(delivered) = Cardinality(WaitingFor(h))
                 /\ \A g \in Hosts \ {h} : recv'[g] = recv[g]
      ]_vars

\* Carol was sent a packet addressed to her and one addressed to XR; she has
\* received the first and her buffers are empty.
C14_Witness ==
    /\ \E i \in 1..Len(sentLog) :
          /\ sentLog[i].next = "Carol" /\ sentLog[i].pto /= "Carol"
          /\ \A j \in 1..Len(recv["Carol"]) : recv["Carol"][j].id /= sentLog[i].id
    /\ recv["Carol"] /= <<>>
    /\ \A m \in Nodes : buf["Carol"][m] = <<>>
    /\ err = NoErr

\* C15: a host with a Connection to a Router has such a Router as its default
\* gateway; a host with Connections to other hosts only has one of those
\* peers, never itself.
C15_GatewayRouterElsePeer ==
    \A h \in Hosts \cap made :
       LET peers == {n \in Nodes \ {h} : HasConnection(h, n)}
       IN  peers /= {} =>
              IF peers \cap Routers /= {} THEN gateway[h] \in peers \cap Routers
              ELSE gateway[h] \in peers

C17_UnpairedQkdRaises ==
    [][\A a \in Adapters :
          (/\ paired[a] = None
           /\ \E m \in Nodes : buf[LocalRouter(a)][m] /= <<>>
           /\ Forward(LocalRouter(a)))
          => /\ err' = <<LocalRouter(a), "PairAdapterDoesNotExists">>
             /\ qkdCalls' = qkdCalls
      ]_vars

\* ---------------------------------------------------------------------- C18
\* C18: every constructed adapter that has a paired adapter has a quantum
\* channel to it.
C18_PairedHasChannel ==
    \A a \in Adapters \cap made :
       paired[a] /= None => ChannelExists(a, paired[a])

\* ------------------------------------------------------------------ C16, C20
\* C16: is_running() is true whenever a network of the world is ticking.
C16_RunningIfAnyTicks ==
    (\E i \in 1..world.networks : world.running[i]) => IsRunning(world)

\* C20: no coordinator thread is ended by an error raised in a forward; it
\* goes on to the other networks.
C20_LoopSurvivesError ==
    \A t \in 1..MaxLoops : world.loops[t].pc /= "dead"

\* ---------------------------------------------------------------- C21 - C26
\* The packets waiting at node n, whatever neighbour sent them.
WaitingAt(n) == UNION {SeqToSet(buf[n][m]) : m \in Nodes}

\* C22: when the packets waiting at an adapter's local router are all
\* QKD_TRANSMISSION packets, the adapter's forward hands the payload of each to
\* the quantum host and does nothing else: nothing is parked, no key changes,
\* no QKD is initiated, no other buffer changes, nothing is raised.
C22_QkdPacketOnlyHandedOver ==
    [][\A a \in Adapters :
          (/\ WaitingAt(LocalRouter(a)) /= {}
           /\ \A q \in WaitingAt(LocalRouter(a)) : q.cls = "QKDTransmissionPacket"
           /\ buf'[LocalRouter(a)] /= buf[LocalRouter(a)]
           /\ Forward(LocalRouter(a)))
          => /\ Len(qrecv'[a]) = Len(qrecv[a]) + Cardinality(WaitingAt(LocalRouter(a)))
             /\ \A i \in 1..Len(qrecv'[a]) :
                   i > Len(qrecv[a]) =>
                      \E q \in WaitingAt(LocalRouter(a)) : q.data = qrecv'[a][i]
             /\ pend' = pend /\ key' = key /\ qkdCalls' = qkdCalls
             /\ \A n \in Nodes \ {LocalRouter(a)} : buf'[n] = buf[n]
             /\ err' = NoErr
      ]_vars

\* The neighbour of router r on the way to target.
NextToward(r, target) ==
    IF HasConnection(r, target) THEN target ELSE GetPath(r, target)[2]

\* C21: a keyed adapter's forward turns each DATA packet that its paired
\* adapter's local router sent into a packet with the payload decrypted,
\* addressed to the finalDestination (to the old to when there is none) and
\* sent to the neighbour on the way there; nothing is parked, nothing goes
\* back to the paired adapter's router, no QKD is initiated.
C21_CiphertextDecryptedForwarded ==
    [][\A a \in Adapters :
          (/\ Truthy(key[a]) /\ paired[a] \notin {None, a}
           /\ buf[LocalRouter(a)][LocalRouter(paired[a])] /= <<>>
           /\ buf'[LocalRouter(a)] /= buf[LocalRouter(a)]
           /\ Forward(LocalRouter(a)))
          => LET self == LocalRouter(a)
                 in == buf[self][LocalRouter(paired[a])]
             IN  /\ \A i \in 1..Len(in) :
                       in[i].cls = "ClassicDataPacket" =>
                          LET target == IF in[i].dest /= None THEN in[i].dest
                                        ELSE in[i].to
                              out == Appended(NextToward(self, target), self)
                          IN  \E j \in 1..Len(out) :
                                 /\ out[j].id = in[i].id
                                 /\ out[j].to = target
                                 /\ out[j].data = SimpleXorDecrypt(in[i].data, key[a][1])
                 /\ pend'[a] = pend[a]
                 /\ qkdCalls' = qkdCalls
                 /\ \A i \in 1..Len(in) :
                       CountIn(Appended(LocalRouter(paired[a]), self), in[i].id) = 0
                 /\ err' = NoErr
      ]_vars

C21_Witness ==
    /\ Truthy(key["Y"]) /\ buf["YR"]["XR"] = <<>>
    /\ \E i \in 1..Len(buf["R2"]["YR"]) : buf["R2"]["YR"][i].to = "Bob"

\* C23: a keyed adapter's forward turns each DATA packet addressed to its
\* local router that did not come from the paired adapter's router into a
\* packet for the paired adapter's router with the payload encrypted under the
\* key and the same from and finalDestination; the plaintext goes nowhere.
C23_EncryptedTowardPair ==
    [][\A a \in Adapters :
          (/\ Truthy(key[a]) /\ paired[a] \notin {None, a}
           /\ buf'[LocalRouter(a)] /= buf[LocalRouter(a)]
           /\ Forward(LocalRouter(a)))
          => LET self == LocalRouter(a)
                 out == Appended(LocalRouter(paired[a]), self)
             IN  \A m \in Nodes \ {LocalRouter(paired[a])} :
                    \A i \in 1..Len(buf[self][m]) :
                       LET p == buf[self][m][i]
                       IN  (p.cls = "ClassicDataPacket" /\ p.to = self) =>
                              /\ \E j \in 1..Len(out) :
                                    /\ out[j].id = p.id
                                    /\ out[j].data = SimpleXorEncrypt(p.data, key[a][1])
                                    /\ out[j].from = p.from
                                    /\ out[j].dest = p.dest
                                    /\ out[j].to = LocalRouter(paired[a])
                              /\ \A n \in Nodes :
                                    \A j \in 1..Len(Appended(n, self)) :
                                       Appended(n, self)[j].id = p.id =>
                                          Appended(n, self)[j].data /= p.data
      ]_vars

\* X got its key after one initiation and has sent two packets on: one of
\* them arrived when X was keyed.
C23_Witness ==
    /\ Truthy(key["X"]) /\ qkdCalls["X"] = 1 /\ pend["X"] = <<>>
    /\ Len(buf["YR"]["XR"]) >= 2

\* C24: the forward of an adapter without a key whose paired adapter's router
\* sent it DATA packets returns normally, takes every waiting packet, sends
\* nothing, and leaves the key and the parked packets as they were.
C24_ProcessWithoutKeyReports ==
    [][\A a \in Adapters :
          (/\ key[a] = NoKey /\ paired[a] \notin {None, a}
           /\ buf[LocalRouter(a)][LocalRouter(paired[a])] /= <<>>
           /\ \A m \in Nodes \ {LocalRouter(paired[a])} : buf[LocalRouter(a)][m] = <<>>
           /\ \A q \in WaitingAt(LocalRouter(a)) : q.cls = "ClassicDataPacket"
           /\ buf'[LocalRouter(a)] /= buf[LocalRouter(a)]
           /\ Forward(LocalRouter(a)))
          => /\ err' = NoErr
             /\ key' = key /\ pend' = pend /\ qkdCalls' = qkdCalls
             /\ \A m \in Nodes : buf'[LocalRouter(a)][m] = <<>>
             /\ \A n \in Nodes \ {LocalRouter(a)} : buf'[n] = buf[n]
      ]_vars

\* C25: a DATA packet that a host or an adapter handed to a Connection names,
\* as its next hop, the node at the other end, in whose buffer it is.
C25_NextHopIsOtherEnd ==
    \A n \in Nodes, m \in Hosts \cup {"XR", "YR"} :
       \A i \in 1..Len(buf[n][m]) :
          buf[n][m][i].cls = "ClassicDataPacket" => buf[n][m][i].next = n

\* C26: pairing is symmetric: a is paired with b exactly when b is paired
\* with a.
C26_PairingSymmetric ==
    \A a \in Adapters \cap made, b \in Adapters \cap made :
       (paired[a] = b) <=> (paired[b] = a)

\* ------------------------------------------------------------ C27 - C30
\* The ids of the packets host h has received.
ReceivedIds(h) == {recv[h][i].id : i \in 1..Len(recv[h])}

\* C28: a packet handed to a Connection by send_data is not received during
\* the send call: a step that is a send_data leaves what every host has
\* received alone, and a host's received packets grow only in that host's own
\* forward(), by packets that were waiting in its buffers before the call.
C28_DeliveryNeedsReceiverTick ==
    [][/\ (sentLog' /= sentLog \/ nextId' /= nextId) => recv' = recv
       /\ \A h \in Hosts :
             recv'[h] /= recv[h] =>
                /\ Forward(h)
                /\ \A i \in (Len(recv[h]) + 1)..Len(recv'[h]) :
                      recv'[h][i].id \in WaitingFor(h)
      ]_vars

\* A host has sent a packet to a directly connected host, which holds it in
\* the buffer for the sender and has not received it.
C28_Witness ==
    \E i \in 1..Len(sentLog) :
       LET s == sentLog[i]
       IN  /\ s.next \in Hosts /\ s.pto = s.next
           /\ CountIn(buf[s.next][s.from], s.id) = 1
           /\ s.id \notin ReceivedIds(s.next)

\* The position of the packet with the given id in what h has received, 0
\* when it is not there.
ReceivedAt(h, id) ==
    IF id \in ReceivedIds(h)
    THEN CHOOSE i \in 1..Len(recv[h]) : recv[h][i].id = id
    ELSE 0

\* C29: packets sent from one node to the same directly connected host are
\* received in the order they were sent: when the later one has been
\* received, the earlier one was received before it.
C29_FifoPerSenderReceiver ==
    \A i \in 1..Len(sentLog), j \in 1..Len(sentLog) :
       LET s1 == sentLog[i]
           s2 == sentLog[j]
       IN  (/\ i < j
            /\ s1.from = s2.from /\ s1.next = s2.next
            /\ s1.next \in Hosts
            /\ s1.pto = s1.next /\ s2.pto = s2.next
            /\ s2.id \in ReceivedIds(s2.next))
           => /\ s1.id \in ReceivedIds(s1.next)
              /\ ReceivedAt(s1.next, s1.id) < ReceivedAt(s2.next, s2.id)

\* Alice has received two packets Carol sent her.
C29_Witness ==
    /\ Len(recv["Alice"]) >= 2
    /\ \E i \in 1..Len(sentLog), j \in 1..Len(sentLog) :
          /\ i < j
          /\ sentLog[i].from = "Carol" /\ sentLog[j].from = "Carol"
          /\ {sentLog[i].id, sentLog[j].id} \subseteq ReceivedIds("Alice")

\* The tick-driven dispatch of the adapter has tested the key (line 129) and
\* has not yet parked or forwarded the packet.
DispatchInProgress == thr.pc \in {"initiate", "park", "send"}

\* on_qkd_established has written shared_key and has not finished draining
\* the pending buffer.
CallbackInProgress == thr.cb = "drain"

\* C27: on_qkd_established and the tick-driven receive_packet of one adapter
\* exclude each other: the callback is never writing shared_key or draining
\* the pending buffer while a dispatch on the adapter is between its key test
\* and its park or forward step.
C27_CallbackExcludesDispatch == ~(CallbackInProgress /\ DispatchInProgress)

\* How often the id occurs among the ids forward() has dequeued.
TimesTaken(id) == Cardinality({i \in 1..Len(thr.taken) : thr.taken[i] = id})

\* C30: while sends from another thread append to Alice's inbound buffer and
\* Alice's forward() drains it, every packet transmitted to Alice is either
\* still waiting in the buffer or was dequeued, exactly once in all; one
\* that was dequeued and is addressed to Alice is received once, the packet
\* forward() holds excepted.
C30_DequeuedExactlyOnce ==
    \A i \in 1..Len(sentLog) :
       LET s == sentLog[i]
           held == thr.pc = "handle" /\ thr.pkt[1].id = s.id
       IN  s.next = "Alice" =>
              /\ CountIn(buf["Alice"][s.from], s.id) + TimesTaken(s.id) = 1
              /\ CountIn(recv["Alice"], s.id) =
                    IF TimesTaken(s.id) = 1 /\ s.pto = "Alice" /\ ~held
                    THEN 1 ELSE 0

\* Alice's forward() has dequeued a packet that was sent after the forward()
\* began, and another packet sent during it is waiting.
C30_Witness ==
    /\ thr.pc /= "idle"
    /\ \E i \in 1..Len(thr.taken) : thr.taken[i] >= thr.since
    /\ \E j \in 1..Len(buf["Alice"]["Carol"]) :
          buf["Alice"]["Carol"][j].id >= thr.since

\* ------------------------------------------------------------ C31 - C40
\* C31: once an adapter holds a key, the key stays and stays the same: no
\* step clears it and no later callback replaces it.
C31_KeyPersists ==
    [][\A a \in Adapters : key[a] /= NoKey => key'[a] = key[a]]_vars

\* C32: the coordinator sleeps only after forward has been called on every
\* registered network: a thread at the sleep of line 59 has been through the
\* whole list.
C32_SleepAfterEveryNetwork ==
    \A t \in 1..MaxLoops :
       world.loops[t].pc = "sleep" => world.loops[t].idx = world.networks

\* C33: a coordinator leaves its loop only on a stop() that was called after
\* the coordinator was started; a stop() before that does not end it.
C33_StaleStopIgnored ==
    \A t \in 1..MaxLoops :
       world.loops[t].pc = "exit" => world.stoppedSince[t]

\* The coordinator thread t is in its loop.
InLoop(t) == world.loops[t].pc \in {"begin", "test", "for", "sleep"}

\* C34: when stop() has been called after every coordinator was started, a
\* coordinator still in its loop has the stop flag to observe; the flag is
\* set by stop() only, so a coordinator in its loop with the flag clear stays
\* there.
C34_OneStopEndsEveryLoop ==
    (\A u \in 1..MaxLoops : world.stoppedSince[u]) =>
       \A t \in 1..MaxLoops : InLoop(t) => world.stopFlag

\* The coordinator thread t is alive and past line 51.
LoopAlive(t) == world.loops[t].pc \in {"test", "for", "sleep", "exit", "exited"}

\* C40: is_sequential_running is true only while a coordinator thread is
\* alive, and with no coordinator thread left and no network ticking
\* is_running() is false, whatever the number of networks.
C40_RunningTracksScheduler ==
    /\ world.seqRunning => \E t \in 1..MaxLoops : LoopAlive(t)
    /\ ( /\ \A t \in 1..MaxLoops : world.loops[t].pc \in {"none", "dead"}
         /\ \A i \in 1..world.networks : ~world.running[i] )
       => ~IsRunning(world)

\* C35: the packets of one sender leave an adapter for the paired adapter in
\* the order they reached it: in the buffer the paired router keeps for the
\* adapter's router, an earlier sent packet of a sender is ahead of a later
\* one.
C35_OrderKeptAcrossAdapter ==
    LET q == buf["YR"]["XR"]
    IN  \A i \in 1..Len(q), j \in 1..Len(q) :
           (i < j /\ q[i].from = q[j].from) => q[i].id < q[j].id

\* C36: the packet that triggered QKD is not stranded.  A packet is stranded
\* when it is parked at a keyed adapter, the callback has returned, no
\* dispatch is in progress and every perform_qkd has had its callback:
\* nothing is left that takes it out of the pending buffer.
C36_TriggerNotStranded ==
    ~ ( /\ pend["X"] /= <<>>
        /\ key["X"] /= NoKey
        /\ thr.cb = "done"
        /\ thr.pc = "idle"
        /\ cbCalls["X"] >= qkdCalls["X"] )

\* C37: once an adapter is keyed no packet stays parked: the callback that
\* stored the key dispatched every parked packet, the ones behind a packet
\* whose dispatch raised included.  (No step takes a packet out of the
\* pending buffer of a keyed adapter, so one that stays, stays for good.)
C37_DrainSurvivesRaise ==
    \A a \in Adapters : key[a] /= NoKey => pend[a] = <<>>

\* C39: a construction that failed left nothing behind: every Connection
\* joins two nodes whose construction succeeded.
C39_FailedConstructionLeavesNothing ==
    \A c \in links : c[1] \in made /\ c[2] \in made

\* The payload that was sent in the packet with the given id.
SentData(id) ==
    LET i == CHOOSE j \in 1..Len(sentLog) : sentLog[j].id = id
    IN  sentLog[i].data

\* C38: every payload a host receives equals the payload that was sent: an
\* adapter decrypts only what its partner encrypted under the same key.
C38_ReceivedEqualsSent ==
    \A h \in Hosts :
       \A i \in 1..Len(recv[h]) : recv[h][i].data = SentData(recv[h][i].id)

====
